---- MODULE Spec2Model ----
(***************************************************************************)
(* RTTY demodulator / ITA2 decoder.                                        *)
(*   src/RTTY_RCV.py     batch decoder     (names suffixed _batch)         *)
(*   src/RTTY_RCV_19.py  streaming decoder (plain names)                   *)
(*                                                                         *)
(* Text is a sequence of characters.  Cyrillic letters are written as      *)
(* ASCII tokens "cyr_X" (one token = one character); "\r" and "\n" are the *)
(* carriage return and the line feed.  Python indices are kept 0-based:    *)
(* bits[i] of the source is bits[i + 1] here.                              *)
(***************************************************************************)
EXTENDS Integers, Sequences, FiniteSets, TLC

VARIABLES
    sample_rate,        \* self.sample_rate
    n_samples_per_bit,  \* self.n_samples_per_bit
    signal,             \* samples the audio source has not delivered yet / batch input
    buffer,             \* self.buffer              (SampleBacklog)
    demodulated_bits,   \* self.demodulated_bits    (BitBacklog)
    current_mode,       \* self.current_mode        (DecodeState)
    stdout,             \* characters printed so far by _process_decoding
    pc,                 \* position of the polling thread inside _process_decoding
    text,               \* local `text` of _process_decoding
    num_bits,           \* local `num_bits` of _process_decoding
    sliced,             \* value of self.demodulated_bits[num_bits:] before it is stored
    appended,           \* history: every bit audio_callback has appended, in order
    consumed,           \* history: bits removed from the front of demodulated_bits
    last,               \* history: the handler that ran last
    last_switch,        \* history: data bits of the last mode-switch frame recognized
    ran,                \* which pure function was applied to the drawn input
    out                 \* its result

vars == <<sample_rate, n_samples_per_bit, signal, buffer, demodulated_bits,
          current_mode, stdout, pc, text, num_bits, sliced, appended, consumed,
          last, last_switch, ran, out>>

-----------------------------------------------------------------------------
(* Bounds of the model *)

\* longest arbitrary bit sequence drawn as input of decode_bits
MaxRawBits == 9
\* most frames in a drawn framed message
MaxFrames == 2

-----------------------------------------------------------------------------
(* Codebook *)

Modes == {"LAT", "RUS", "FIGS"}
Bit == {0, 1}
Codes == [1..5 -> Bit]

\* MODE_SWITCH, as written (identical in both files)
MODE_SWITCH ==
    << <<<<0,0,0,0,0>>, "RUS">>, <<<<1,1,0,1,1>>, "FIGS">>, <<<<1,1,1,1,1>>, "LAT">> >>

LAT_table ==
    <<
       <<<<1,1,0,0,0>>, "A">>, <<<<1,0,0,1,1>>, "B">>, <<<<0,1,1,1,0>>, "C">>,
       <<<<1,0,0,1,0>>, "D">>, <<<<1,0,0,0,0>>, "E">>, <<<<1,0,1,1,0>>, "F">>,
       <<<<0,1,0,1,1>>, "G">>, <<<<0,0,1,0,1>>, "H">>, <<<<0,1,1,0,0>>, "I">>,
       <<<<1,1,0,1,0>>, "J">>, <<<<1,1,1,1,0>>, "K">>, <<<<0,1,0,0,1>>, "L">>,
       <<<<0,0,1,1,1>>, "M">>, <<<<0,0,1,1,0>>, "N">>, <<<<0,0,0,1,1>>, "O">>,
       <<<<0,1,1,0,1>>, "P">>, <<<<1,1,1,0,1>>, "Q">>, <<<<0,1,0,1,0>>, "R">>,
       <<<<1,0,1,0,0>>, "S">>, <<<<0,0,0,0,1>>, "T">>, <<<<1,1,1,0,0>>, "U">>,
       <<<<0,1,1,1,1>>, "V">>, <<<<1,1,0,0,1>>, "W">>, <<<<1,0,1,1,1>>, "X">>,
       <<<<1,0,1,0,1>>, "Y">>, <<<<1,0,0,0,1>>, "Z">>, <<<<0,0,1,0,0>>, " ">>,
       <<<<0,0,0,1,0>>, "\r">>, <<<<0,1,0,0,0>>, "\n">> >>

\* 'RUS' of RTTY_RCV_19.py
RUS_table ==
    <<
       <<<<1,1,0,0,0>>, "cyr_A">>, <<<<1,0,0,1,1>>, "cyr_B">>, <<<<1,1,0,0,1>>, "cyr_V">>,
       <<<<0,1,0,1,1>>, "cyr_G">>, <<<<1,0,0,1,0>>, "cyr_D">>, <<<<1,0,0,0,0>>, "cyr_E">>,
       <<<<0,1,1,1,1>>, "cyr_ZH">>, <<<<1,0,0,0,1>>, "cyr_Z">>, <<<<0,1,1,0,0>>, "cyr_I">>,
       <<<<1,1,0,1,0>>, "cyr_J">>, <<<<1,1,1,1,0>>, "cyr_K">>, <<<<0,1,0,0,1>>, "cyr_L">>,
       <<<<0,0,1,1,1>>, "cyr_M">>, <<<<0,0,1,1,0>>, "cyr_N">>, <<<<0,0,0,1,1>>, "cyr_O">>,
       <<<<0,1,1,0,1>>, "cyr_P">>, <<<<0,1,0,1,0>>, "cyr_R">>, <<<<1,0,1,0,0>>, "cyr_S">>,
       <<<<0,0,0,0,1>>, "cyr_T">>, <<<<1,1,1,0,0>>, "cyr_U">>, <<<<1,0,1,1,0>>, "cyr_F">>,
       <<<<0,0,1,0,1>>, "cyr_H">>, <<<<0,1,1,1,0>>, "cyr_C">>, <<<<1,0,1,1,1>>, "cyr_HARD">>,
       <<<<1,0,1,0,1>>, "cyr_Y">>, <<<<1,0,1,1,1>>, "cyr_SOFT">>, <<<<1,1,1,0,1>>, "cyr_YA">>,
       <<<<0,0,0,1,0>>, "\r">>, <<<<0,1,0,0,0>>, "\n">> >>

\* 'RUS' of RTTY_RCV.py (one more entry, "cyr_YO")
RUS_table_batch ==
    <<
       <<<<1,1,0,0,0>>, "cyr_A">>, <<<<1,0,0,1,1>>, "cyr_B">>, <<<<1,1,0,0,1>>, "cyr_V">>,
       <<<<0,1,0,1,1>>, "cyr_G">>, <<<<1,0,0,1,0>>, "cyr_D">>, <<<<1,0,0,0,0>>, "cyr_E">>,
       <<<<0,1,1,1,1>>, "cyr_ZH">>, <<<<1,0,0,0,1>>, "cyr_Z">>, <<<<0,1,1,0,0>>, "cyr_I">>,
       <<<<1,1,0,1,0>>, "cyr_J">>, <<<<1,1,1,1,0>>, "cyr_K">>, <<<<0,1,0,0,1>>, "cyr_L">>,
       <<<<0,0,1,1,1>>, "cyr_M">>, <<<<0,0,1,1,0>>, "cyr_N">>, <<<<0,0,0,1,1>>, "cyr_O">>,
       <<<<0,1,1,0,1>>, "cyr_P">>, <<<<0,1,0,1,0>>, "cyr_R">>, <<<<1,0,1,0,0>>, "cyr_S">>,
       <<<<0,0,0,0,1>>, "cyr_T">>, <<<<1,1,1,0,0>>, "cyr_U">>, <<<<1,0,1,1,0>>, "cyr_F">>,
       <<<<0,0,1,0,1>>, "cyr_H">>, <<<<0,1,1,1,0>>, "cyr_C">>, <<<<1,0,1,1,1>>, "cyr_HARD">>,
       <<<<1,0,1,0,1>>, "cyr_Y">>, <<<<1,0,1,1,1>>, "cyr_SOFT">>, <<<<1,1,1,0,1>>, "cyr_YA">>,
       <<<<1,0,0,0,0>>, "cyr_YO">>, <<<<0,0,0,1,0>>, "\r">>, <<<<0,1,0,0,0>>, "\n">> >>

FIGS_table ==
    <<
       <<<<0,1,1,0,1>>, "0">>, <<<<1,1,1,0,1>>, "1">>, <<<<1,1,0,0,1>>, "2">>,
       <<<<1,0,0,0,0>>, "3">>, <<<<0,1,0,1,0>>, "4">>, <<<<0,0,0,0,1>>, "5">>,
       <<<<1,0,1,0,1>>, "6">>, <<<<1,1,1,0,0>>, "7">>, <<<<0,1,1,0,0>>, "8">>,
       <<<<0,0,0,1,1>>, "9">>, <<<<1,1,0,0,0>>, "-">>, <<<<1,0,0,0,1>>, "+">>,
       <<<<1,0,0,1,1>>, "?">>, <<<<0,1,1,1,0>>, ":">>, <<<<1,1,1,1,0>>, "(">>,
       <<<<0,1,0,0,1>>, ")">>, <<<<0,0,1,1,1>>, ".">>, <<<<0,0,1,1,0>>, ",">>,
       <<<<0,1,1,1,1>>, "/">>, <<<<0,0,1,0,0>>, " ">>, <<<<0,1,0,1,1>>, "cyr_SH">>,
       <<<<0,0,1,0,1>>, "cyr_SHCH">>, <<<<1,0,1,1,0>>, "cyr_EH">>, <<<<1,1,0,1,0>>, "cyr_YU">>,
       <<<<0,1,0,1,0>>, "cyr_CH">>, <<<<0,0,0,1,0>>, "\r">>, <<<<0,1,0,0,0>>, "\n">> >>

\* ITA2_MODES of RTTY_RCV_19.py: mode -> the (code, character) pairs as written
ITA2_MODES ==
    [m \in Modes |-> CASE m = "LAT" -> LAT_table
                       [] m = "RUS" -> RUS_table
                       [] m = "FIGS" -> FIGS_table]

\* ITA2_MODES of RTTY_RCV.py
ITA2_MODES_batch ==
    [m \in Modes |-> CASE m = "LAT" -> LAT_table
                       [] m = "RUS" -> RUS_table_batch
                       [] m = "FIGS" -> FIGS_table]

\* `key in d` for a dict literal written as the pairs `table`
HasKey(table, code) == \E k \in 1..Len(table) : table[k][1] = code

\* d[key] for a dict literal: of several entries with one key the last one stays
Lookup(table, code) ==
    LET k == CHOOSE k \in 1..Len(table) :
                 /\ table[k][1] = code
                 /\ \A l \in (k + 1)..Len(table) : table[l][1] # code
    IN table[k][2]

\* the placeholder returned for a code in no table
Placeholder == "?"

\* a faulty variant of decode_ita2_char that never looks a code up in MODE_SWITCH
decode_ita2_char_no_switch(modes, code, mode) ==
    IF mode \in DOMAIN modes /\ HasKey(modes[mode], code)
    THEN Lookup(modes[mode], code)
    ELSE Placeholder

\* a faulty variant of decode_ita2_char that falls back on the LAT table for a code
\* the mode's table does not hold
decode_ita2_char_fallback(modes, code, mode) ==
    IF HasKey(MODE_SWITCH, code)
    THEN Lookup(MODE_SWITCH, code)
    ELSE IF mode \in DOMAIN modes /\ HasKey(modes[mode], code)
         THEN Lookup(modes[mode], code)
         ELSE IF HasKey(modes["LAT"], code) THEN Lookup(modes["LAT"], code)
              ELSE Placeholder

\* _decode_ita2_char (the same text in both files), `modes` being the file's ITA2_MODES
decode_ita2_char(modes, code, mode) ==
    IF HasKey(MODE_SWITCH, code)
    THEN Lookup(MODE_SWITCH, code)
    ELSE IF mode \in DOMAIN modes /\ HasKey(modes[mode], code)
         THEN Lookup(modes[mode], code)
         ELSE Placeholder

-----------------------------------------------------------------------------
(* FrameSynchronizer, streaming: decode_bits of RTTY_RCV_19.py *)

\* the characters _decode_ita2_char returns for the three mode-switch codes
SwitchNames == {"RUS", "FIGS", "LAT"}

\* a faulty variant of stop_scan that steps over one stop bit only
stop_scan_one(bits, j) == IF j < Len(bits) /\ bits[j + 1] = 1 THEN j + 1 ELSE j

\* inner while of decode_bits: j runs over the consecutive 1-bits from j on
RECURSIVE stop_scan(_, _)
stop_scan(bits, j) ==
    IF j < Len(bits) /\ bits[j + 1] = 1 THEN stop_scan(bits, j + 1) ELSE j

\* a faulty variant of resync_index that skips the start bit and the five data bits
resync_skip_frame(i) == i + 6

\* a faulty variant of resync_index that retries the same start bit
resync_stay(i) == i

\* framing failure (stop_length < 1): i += 1
resync_index(i) == i + 1

\* a faulty variant of mode_after that has no branch for 'LAT'
mode_after_no_lat(char, mode) ==
    IF char = "RUS" THEN "RUS"
    ELSE IF char = "FIGS" THEN "FIGS"
    ELSE mode

\* the if/elif chain on char: the mode after a recognized frame
mode_after(char, mode) ==
    IF char = "RUS" THEN "RUS"
    ELSE IF char = "FIGS" THEN "FIGS"
    ELSE IF char = "LAT" THEN "LAT"
    ELSE mode

\* a faulty variant of text_after that appends the switch names too
text_after_always(char, txt) == Append(txt, char)

\* the else branch of the chain: text.append(char)
text_after(char, txt) ==
    IF char = "RUS" \/ char = "FIGS" \/ char = "LAT" THEN txt ELSE Append(txt, char)

\* a faulty variant of start_mode that starts every call in 'LAT', as the batch decoder does
start_mode_lat(mode) == "LAT"

\* current_mode = self.current_mode, the first statement of decode_bits
start_mode(mode) == mode

\* The outer while of decode_bits.  frames and fails only record what the loop
\* did: the frames it recognized (start index s, data bits, index j after the
\* stop run, the mode before and the character looked up) and the start
\* indices it abandoned.
RECURSIVE decode_loop(_, _, _, _, _, _)
decode_loop(bits, i, mode, txt, frames, fails) ==
    IF ~(i < Len(bits) - 6)
    THEN [text |-> txt, i |-> i, current_mode |-> mode,
          frames |-> frames, fails |-> fails]
    ELSE IF bits[i + 1] # 0
    THEN decode_loop(bits, i + 1, mode, txt, frames, fails)
    ELSE LET data_bits == SubSeq(bits, i + 2, i + 6)
             j == stop_scan(bits, i + 6)
             stop_length == j - (i + 6)
         IN IF stop_length < 1
            THEN decode_loop(bits, resync_index(i), mode, txt, frames,
                             Append(fails, i))
            ELSE LET char == decode_ita2_char(ITA2_MODES, data_bits, mode)
                 IN decode_loop(bits, j, mode_after(char, mode),
                                text_after(char, txt),
                                Append(frames, [s |-> i, data |-> data_bits, j |-> j,
                                                mode |-> mode, char |-> char]),
                                fails)

\* a faulty variant of decode_bits that reports every bit as consumed
decode_bits_all_consumed(bits, mode) ==
    [decode_loop(bits, 0, start_mode(mode), <<>>, <<>>, <<>>) EXCEPT !.i = Len(bits)]

\* decode_bits(bits) called with self.current_mode = mode; the field
\* current_mode of the result is self.current_mode after the call
decode_bits(bits, mode) == decode_loop(bits, 0, start_mode(mode), <<>>, <<>>, <<>>)

-----------------------------------------------------------------------------
(* FrameSynchronizer, batch: decode_bits of RTTY_RCV.py *)

RECURSIVE decode_loop_batch(_, _, _, _, _, _)
decode_loop_batch(bits, i, bit_buffer, mode, txt, frames) ==
    IF ~(i < Len(bits))
    THEN [text |-> txt, i |-> i, current_mode |-> mode,
          frames |-> frames, fails |-> <<>>]
    ELSE LET bit == bits[i + 1]
             buf == Append(bit_buffer, bit)
         IN IF Len(buf) = 1 /\ bit # 0
            THEN decode_loop_batch(bits, i + 1, <<>>, mode, txt, frames)
            ELSE IF Len(buf) >= 7
            THEN IF buf[1] # 0
                 THEN decode_loop_batch(bits, i, <<>>, mode, txt, frames)
                 ELSE LET data_bits == SubSeq(buf, 2, 6)
                          j == stop_scan(bits, i)
                          stop_length == j - i
                      IN IF stop_length >= 1
                         THEN LET char == decode_ita2_char(ITA2_MODES_batch,
                                                           data_bits, mode)
                              IN decode_loop_batch(bits, j, <<>>,
                                     mode_after(char, mode), text_after(char, txt),
                                     Append(frames,
                                            [s |-> i + 1 - Len(buf), data |-> data_bits,
                                             j |-> j, mode |-> mode, char |-> char]))
                         ELSE decode_loop_batch(bits, i + 1, buf, mode, txt, frames)
            ELSE decode_loop_batch(bits, i + 1, buf, mode, txt, frames)

\* decode_bits(bits) of the batch decoder: always starts in 'LAT'
decode_bits_batch(bits) == decode_loop_batch(bits, 0, <<>>, "LAT", <<>>, <<>>)

-----------------------------------------------------------------------------
(* BandDiscriminator and StreamingSession: RTTY_RCV_19.py *)

\* A sample is the tone it carries: "M" (mark), "S" (space) or "Z" (a zero
\* sample).  The energy a band-pass filter lets through is modelled as the
\* number of samples of the segment that carry the band's tone.
Tones == {"M", "S"}

band_energy(segment, tone) == Cardinality({k \in 1..Len(segment) : segment[k] = tone})

\* the last n elements of a sequence; Python's s[-n:], which is all of s for n = 0
LastN(seq, n) ==
    IF n = 0 \/ n >= Len(seq) THEN seq ELSE SubSeq(seq, Len(seq) - n + 1, Len(seq))

\* s[n:]
DropN(seq, n) == SubSeq(seq, n + 1, Len(seq))

\* a faulty variant of detect_frequency that answers 'space' whenever the
\* hysteresis condition holds
detect_frequency_uncertain_space(segment) ==
    LET window == (Len(segment) * 8) \div 10
        seg == LastN(segment, window)
        mark_energy == band_energy(seg, "M")
        space_energy == band_energy(seg, "S")
        diff == IF mark_energy >= space_energy THEN mark_energy - space_energy
                ELSE space_energy - mark_energy
    IN IF 5 * diff < mark_energy + space_energy
       THEN "space"
       ELSE (IF mark_energy > space_energy THEN "mark" ELSE "space")

\* _detect_frequency of RTTY_RCV_19.py: the trailing 80% of the segment, the
\* two energies, the hysteresis test 5 * |m - s| < m + s, and the two returns
detect_frequency(segment) ==
    LET window == (Len(segment) * 8) \div 10
        seg == LastN(segment, window)
        mark_energy == band_energy(seg, "M")
        space_energy == band_energy(seg, "S")
        diff == IF mark_energy >= space_energy THEN mark_energy - space_energy
                ELSE space_energy - mark_energy
    IN IF 5 * diff < mark_energy + space_energy
       THEN (IF mark_energy > space_energy THEN "mark" ELSE "space")
       ELSE (IF mark_energy > space_energy THEN "mark" ELSE "space")

\* the bound of the sample backlog, in bit durations
BacklogFactor == 10

\* the while loop of audio_callback: one bit per full window of spb samples
RECURSIVE drained(_, _, _)
drained(buf, bits, spb) ==
    IF Len(buf) >= spb
    THEN LET segment == SubSeq(buf, 1, spb)
             bit == IF detect_frequency(segment) = "mark" THEN 1 ELSE 0
         IN drained(DropN(buf, spb), Append(bits, bit), spb)
    ELSE [buffer |-> buf, bits |-> bits]

\* a faulty variant of truncated that empties the sample backlog
truncated_clear(buf, spb) == <<>>

\* the truncation that ends audio_callback
truncated(buf, spb) ==
    IF Len(buf) > BacklogFactor * spb THEN LastN(buf, BacklogFactor * spb) ELSE buf

\* a faulty variant of callback_result with `if` for `while` and no truncation
callback_result_one_segment(buf, bits, chunk, spb) ==
    LET all == buf \o chunk
    IN IF Len(all) >= spb
       THEN [buffer |-> DropN(all, spb),
             bits |-> Append(bits, IF detect_frequency(SubSeq(all, 1, spb)) = "mark"
                                   THEN 1 ELSE 0)]
       ELSE [buffer |-> all, bits |-> bits]

\* audio_callback: self.buffer and self.demodulated_bits after the chunk
callback_result(buf, bits, chunk, spb) ==
    LET d == drained(buf \o chunk, bits, spb)
    IN [buffer |-> truncated(d.buffer, spb), bits |-> d.bits]

\* text.replace('\r', '\n')
replace_cr(txt) == [k \in 1..Len(txt) |-> IF txt[k] = "\r" THEN "\n" ELSE txt[k]]

\* '\n\n' in text
has_blank_line(txt) == \E k \in 1..(Len(txt) - 1) : txt[k] = "\n" /\ txt[k + 1] = "\n"

\* text.replace('\n\n', '\n'): one pass, left to right, non-overlapping
RECURSIVE replace_blank_lines(_)
replace_blank_lines(txt) ==
    IF Len(txt) < 2 THEN txt
    ELSE IF txt[1] = "\n" /\ txt[2] = "\n"
         THEN <<"\n">> \o replace_blank_lines(DropN(txt, 2))
         ELSE <<txt[1]>> \o replace_blank_lines(Tail(txt))

\* a faulty variant of collapse_blank_lines that replaces once, with no loop
collapse_blank_lines_once(txt) == replace_blank_lines(txt)

\* while '\n\n' in text: text = text.replace('\n\n', '\n')
RECURSIVE collapse_blank_lines(_)
collapse_blank_lines(txt) ==
    IF has_blank_line(txt) THEN collapse_blank_lines(replace_blank_lines(txt)) ELSE txt

\* what _process_decoding prints for a non-empty decoded text
formatted(txt) == collapse_blank_lines(replace_cr(txt))

-----------------------------------------------------------------------------
(* Configuration: __init__ *)

\* baud = 45.45, the default, as the fraction BaudNum / BaudDen
BaudNum == 4545
BaudDen == 100

\* int(sample_rate * (1.0 / baud)): int() truncates
samples_per_bit(rate) == (rate * BaudDen) \div BaudNum

-----------------------------------------------------------------------------
(* Inputs *)

\* every bit sequence of length 0..n
BitSeqs(n) == UNION {[1..k -> Bit] : k \in 0..n}

\* a well-formed frame: start bit 0, five data bits, stop bits 1,1
Frame(code) == <<0>> \o code \o <<1, 1>>

RECURSIVE Frames(_)
Frames(codes) ==
    IF codes = <<>> THEN <<>> ELSE Frame(Head(codes)) \o Frames(Tail(codes))

\* the codes drawn for the frames after the first one: the three mode
\* switches, E/3, T/5, space (in no RUS table), line feed, carriage return
FollowCodes ==
    {<<0,0,0,0,0>>, <<1,1,0,1,1>>, <<1,1,1,1,1>>, <<1,0,0,0,0>>, <<0,0,0,0,1>>,
     <<0,0,1,0,0>>, <<0,1,0,0,0>>, <<0,0,0,1,0>>}

\* code sequences of 1..n frames: any first code, then codes of FollowCodes
CodeSeqs(n) ==
    UNION {{<<c>> \o t : c \in Codes, t \in [1..(k - 1) -> FollowCodes]} : k \in 1..n}

\* the bit sequences drawn as input of decode_bits: arbitrary short ones,
\* framed messages, and framed messages after one spurious 0-bit
BitInputs ==
    BitSeqs(MaxRawBits)
        \cup {Frames(cs) : cs \in CodeSeqs(MaxFrames)}
        \cup {<<0>> \o Frames(cs) : cs \in CodeSeqs(MaxFrames)}

NoResult == [text |-> <<>>, i |-> 0, current_mode |-> "LAT", frames |-> <<>>,
             fails |-> <<>>, start |-> "LAT"]

NoLast == "none"

-----------------------------------------------------------------------------
(* SpecBits: the two decode_bits applied to a drawn bit sequence *)

InitBits ==
    /\ sample_rate = 46
    /\ n_samples_per_bit = samples_per_bit(46)
    /\ signal = <<>>
    /\ buffer = <<>>
    /\ demodulated_bits \in BitInputs
    /\ current_mode \in Modes
    /\ stdout = <<>>
    /\ pc = "idle"
    /\ text = <<>>
    /\ num_bits = 0
    /\ sliced = <<>>
    /\ appended = <<>>
    /\ consumed = 0
    /\ last = NoLast
    /\ last_switch = <<>>
    /\ ran = "none"
    /\ out = NoResult

\* RTTY_RCV_19.py: decode_bits(self.demodulated_bits)
RunDecodeBits ==
    /\ ran = "none"
    /\ LET r == decode_bits(demodulated_bits, current_mode)
       IN /\ out' = [r EXCEPT !.current_mode = r.current_mode] @@ [start |-> current_mode]
          /\ current_mode' = r.current_mode
    /\ ran' = "decode_bits"
    /\ UNCHANGED <<sample_rate, n_samples_per_bit, signal, buffer, demodulated_bits,
                   stdout, pc, text, num_bits, sliced, appended, consumed, last,
                   last_switch>>

\* RTTY_RCV.py: decode_bits(bits)
RunDecodeBitsBatch ==
    /\ ran = "none"
    /\ out' = decode_bits_batch(demodulated_bits) @@ [start |-> "LAT"]
    /\ ran' = "decode_bits_batch"
    /\ UNCHANGED <<sample_rate, n_samples_per_bit, signal, buffer, demodulated_bits,
                   current_mode, stdout, pc, text, num_bits, sliced, appended,
                   consumed, last, last_switch>>

NextBits == RunDecodeBits \/ RunDecodeBitsBatch

SpecBits == InitBits /\ [][NextBits]_vars

-----------------------------------------------------------------------------
(* Vocabulary of the claims about decode_bits *)

\* bits is a concatenation of one or more well-formed frames
IsFramed(bits) ==
    /\ Len(bits) > 0
    /\ Len(bits) % 8 = 0
    /\ \A f \in 0..((Len(bits) \div 8) - 1) :
           bits[8 * f + 1] = 0 /\ bits[8 * f + 7] = 1 /\ bits[8 * f + 8] = 1

\* the data bits of the frames of a framed bit sequence
CodesOf(bits) == [f \in 1..(Len(bits) \div 8) |-> SubSeq(bits, 8 * f - 6, 8 * f - 2)]

\* the data bits of the frames a run of decode_bits recognized
FrameCodes(frames) == [k \in 1..Len(frames) |-> frames[k].data]

SwitchCodes == {<<0,0,0,0,0>>, <<1,1,0,1,1>>, <<1,1,1,1,1>>}

\* the mode each mode-switch code names
SwitchTarget(code) ==
    CASE code = <<0,0,0,0,0>> -> "RUS"
      [] code = <<1,1,0,1,1>> -> "FIGS"
      [] code = <<1,1,1,1,1>> -> "LAT"

\* the mode in force right after the k-th recognized frame of the run in out
ModeAfterFrame(k) ==
    IF k < Len(out.frames) THEN out.frames[k + 1].mode ELSE out.current_mode

\* how many characters the first k recognized frames must have emitted
EmitIndex(k) == Cardinality({l \in 1..k : out.frames[l].data \notin SwitchCodes})

\* the characters a table lists for a code
ListedChars(table, code) ==
    {table[k][2] : k \in {l \in 1..Len(table) : table[l][1] = code}}

\* the table the decoder that ran uses for a mode
TableOfRun(mode) ==
    IF ran = "decode_bits_batch" THEN ITA2_MODES_batch[mode] ELSE ITA2_MODES[mode]

-----------------------------------------------------------------------------
(* C1 *)

\* C1 (as claimed): a framed message of characters listed in one mode's table
\* decodes, in that mode, to exactly those characters: whatever character the
\* table lists for the code of the k-th frame is the k-th character of the text.
C1_RoundTrip ==
    (ran = "decode_bits" /\ IsFramed(demodulated_bits)
        /\ \A f \in 1..(Len(demodulated_bits) \div 8) :
               ListedChars(ITA2_MODES[out.start], CodesOf(demodulated_bits)[f]) # {})
    => /\ Len(out.text) = Len(demodulated_bits) \div 8
       /\ \A f \in 1..(Len(demodulated_bits) \div 8) :
              \A c \in ListedChars(ITA2_MODES[out.start], CodesOf(demodulated_bits)[f]) :
                  out.text[f] = c

-----------------------------------------------------------------------------
(* C2 *)

\* bits is one spurious 0-bit followed by well-formed frames
SpuriousFramed(bits) == Len(bits) > 1 /\ bits[1] = 0 /\ IsFramed(Tail(bits))

\* C2 (as claimed): whatever the data bits of the first frame, one spurious
\* 0-bit before well-formed frames does not change the decoded text.
C2_ResyncAnyFrame ==
    (ran = "decode_bits" /\ SpuriousFramed(demodulated_bits))
    => out.text = decode_bits(Tail(demodulated_bits), out.start).text

\* C2 (amended): in the streaming decode_bits, when the fifth data bit of the
\* first frame is 0, one spurious 0-bit before well-formed frames is abandoned
\* as a start bit, every frame is then recognized with its own data bits, and
\* the decoded text is the text of the frames without the spurious bit.
C2_ResyncWhenLastDataBitZero ==
    (ran = "decode_bits" /\ SpuriousFramed(demodulated_bits) /\ demodulated_bits[7] = 0)
    => /\ out.text = decode_bits(Tail(demodulated_bits), out.start).text
       /\ FrameCodes(out.frames) = CodesOf(Tail(demodulated_bits))
       /\ out.fails = <<0>>

C2_Witness ==
    /\ ran = "decode_bits"
    /\ SpuriousFramed(demodulated_bits)
    /\ demodulated_bits[7] = 0
    /\ Len(out.frames) = 2
    /\ Len(out.text) = 2

-----------------------------------------------------------------------------
(* C7 *)

\* C7: every recognized frame whose data bits are a mode-switch code, in
\* whatever mode, leaves the decoder in the mode the code names and emits no
\* character: the text has one character per other frame and never a switch
\* name; FIGS switch then (0,0,0,0,1), from LAT, gives exactly "5".
C7_SwitchPriority ==
    (ran # "none")
    => /\ \A k \in 1..Len(out.frames) :
              out.frames[k].data \in SwitchCodes
              => ModeAfterFrame(k) = SwitchTarget(out.frames[k].data)
       /\ Len(out.text) = EmitIndex(Len(out.frames))
       /\ \A n \in 1..Len(out.text) : out.text[n] \notin SwitchNames
       /\ (demodulated_bits = Frames(<< <<1,1,0,1,1>>, <<0,0,0,0,1>> >>)
              /\ out.start = "LAT")
          => out.text = <<"5">>

C7_Witness ==
    /\ ran = "decode_bits"
    /\ demodulated_bits = Frames(<< <<1,1,0,1,1>>, <<0,0,0,0,1>> >>)
    /\ out.start = "LAT"
    /\ out.text = <<"5">>
    /\ out.current_mode = "FIGS"

-----------------------------------------------------------------------------
(* C8 *)

\* the k-th recognized frame carries a code that is neither a mode switch nor
\* a key of the table of the mode in force
UnknownFrame(k) ==
    /\ out.frames[k].data \notin SwitchCodes
    /\ ListedChars(TableOfRun(out.frames[k].mode), out.frames[k].data) = {}

\* C8: a recognized frame with an unknown code emits exactly one placeholder,
\* leaves the mode unchanged, and decoding goes on: every frame of a framed
\* message is still recognized.
C8_UnknownCode ==
    (ran # "none")
    => /\ \A k \in 1..Len(out.frames) :
              UnknownFrame(k)
              => /\ out.text[EmitIndex(k)] = Placeholder
                 /\ EmitIndex(k) = (IF k = 1 THEN 0 ELSE EmitIndex(k - 1)) + 1
                 /\ ModeAfterFrame(k) = out.frames[k].mode
       /\ Len(out.text) = EmitIndex(Len(out.frames))
       /\ IsFramed(demodulated_bits)
          => FrameCodes(out.frames) = CodesOf(demodulated_bits)

C8_Witness ==
    /\ ran = "decode_bits"
    /\ Len(out.frames) = 2
    /\ UnknownFrame(1)
    /\ out.frames[1].mode = "RUS"
    /\ out.text = <<Placeholder, "cyr_T">>

-----------------------------------------------------------------------------
(* Spec: a streaming session, audio_callback and _process_decoding called one
   after the other in any order (start_streaming has reset the decoder) *)

\* the samples of a bit sequence: spb samples of the bit's tone per bit
RECURSIVE Render(_, _)
Render(bits, spb) ==
    IF bits = <<>> THEN <<>>
    ELSE [k \in 1..spb |-> IF Head(bits) = 1 THEN "M" ELSE "S"] \o Render(Tail(bits), spb)

\* longest arbitrary bit sequence a session receives
MaxSessionBits == 8
\* most frames of a framed message a session receives
MaxSessionFrames == 3

\* the codes of the framed messages of a session: the FIGS switch, E/3 and
\* line feed (the arbitrary bit sequences hold one frame of every code)
SessionCodes == {<<1,1,0,1,1>>, <<1,0,0,0,0>>, <<0,1,0,0,0>>}

SessionBits ==
    BitSeqs(MaxSessionBits)
        \cup {Frames(cs) : cs \in UNION {[1..k -> SessionCodes] : k \in 1..MaxSessionFrames}}

InitSession ==
    /\ sample_rate = 46
    /\ n_samples_per_bit = samples_per_bit(46)
    /\ signal \in {Render(b, samples_per_bit(46)) : b \in SessionBits}
    /\ buffer = <<>>
    /\ demodulated_bits = <<>>
    /\ current_mode = "LAT"
    /\ stdout = <<>>
    /\ pc = "idle"
    /\ text = <<>>
    /\ num_bits = 0
    /\ sliced = <<>>
    /\ appended = <<>>
    /\ consumed = 0
    /\ last = NoLast
    /\ last_switch = <<>>
    /\ ran = "none"
    /\ out = NoResult

\* audio_callback(in_data, ...): the source delivers its next n samples
audio_callback(n) ==
    /\ n \in 1..Len(signal)
    /\ LET chunk == SubSeq(signal, 1, n)
           r == callback_result(buffer, demodulated_bits, chunk, n_samples_per_bit)
       IN /\ buffer' = r.buffer
          /\ demodulated_bits' = r.bits
          /\ appended' = appended \o DropN(r.bits, Len(demodulated_bits))
          /\ last' = "audio_callback"
    /\ signal' = DropN(signal, n)
    /\ UNCHANGED <<sample_rate, n_samples_per_bit, current_mode, stdout, pc, text,
                   num_bits, sliced, consumed, last_switch, ran, out>>

\* the data bits of the last mode-switch frame among frames, prev if there is none
LastSwitch(frames, prev) ==
    LET sw == {k \in 1..Len(frames) : frames[k].data \in SwitchCodes}
    IN IF sw = {} THEN prev
       ELSE frames[CHOOSE k \in sw : \A l \in sw : l <= k].data

\* a faulty variant of process_decoding that empties the bit backlog when it holds
\* fewer than 7 bits
process_decoding_flush ==
    /\ pc = "idle"
    /\ IF Len(demodulated_bits) < 7
       THEN /\ demodulated_bits' = <<>>
            /\ consumed' = consumed + Len(demodulated_bits)
            /\ UNCHANGED <<current_mode, stdout, last_switch>>
       ELSE LET r == decode_bits(demodulated_bits, current_mode)
            IN /\ current_mode' = r.current_mode
               /\ last_switch' = LastSwitch(r.frames, last_switch)
               /\ IF r.text # <<>>
                  THEN /\ stdout' = stdout \o formatted(r.text)
                       /\ demodulated_bits' = DropN(demodulated_bits, r.i)
                       /\ consumed' = consumed + r.i
                  ELSE UNCHANGED <<stdout, demodulated_bits, consumed>>
    /\ last' = "_process_decoding"
    /\ UNCHANGED <<sample_rate, n_samples_per_bit, signal, buffer, pc, text, num_bits,
                   sliced, appended, ran, out>>

\* _process_decoding(), run to its end
process_decoding ==
    /\ pc = "idle"
    /\ IF Len(demodulated_bits) < 7
       THEN UNCHANGED <<demodulated_bits, current_mode, stdout, consumed, last_switch>>
       ELSE LET r == decode_bits(demodulated_bits, current_mode)
            IN /\ current_mode' = r.current_mode
               /\ last_switch' = LastSwitch(r.frames, last_switch)
               /\ IF r.text # <<>>
                  THEN /\ stdout' = stdout \o formatted(r.text)
                       /\ demodulated_bits' = DropN(demodulated_bits, r.i)
                       /\ consumed' = consumed + r.i
                  ELSE UNCHANGED <<stdout, demodulated_bits, consumed>>
    /\ last' = "_process_decoding"
    /\ UNCHANGED <<sample_rate, n_samples_per_bit, signal, buffer, pc, text, num_bits,
                   sliced, appended, ran, out>>

Next == (\E n \in 1..Len(signal) : audio_callback(n)) \/ process_decoding

Spec == InitSession /\ [][Next]_vars

-----------------------------------------------------------------------------
(* C3 *)

\* every sample has been delivered and _process_decoding ran after the last
\* audio_callback
SessionDrained == signal = <<>> /\ last = "_process_decoding"

\* what one _process_decoding prints over the bits, from mode LAT
SinglePoll(bits) ==
    IF Len(bits) < 7 THEN <<>> ELSE formatted(decode_bits(bits, "LAT").text)

\* C3 (as claimed): once all chunks are appended and polled, the fragments
\* printed, concatenated, are the text one poll prints over the whole sequence.
C3_ChunkingDeterminism == SessionDrained => stdout = SinglePoll(appended)

-----------------------------------------------------------------------------
(* C4 *)

\* C4: the mode is always one of LAT/RUS/FIGS and the one the last recognized
\* mode-switch frame names (LAT before any); once everything is delivered and
\* polled it is the mode one decode of the whole bit sequence ends in, however
\* the bits were split; FIGS switch then (1,0,0,0,0) prints "3" for every
\* split, and E, FIGS switch, (1,0,0,0,0) prints "E3".
C4_ModePersistence ==
    /\ current_mode \in Modes
    /\ current_mode = (IF last_switch = <<>> THEN "LAT" ELSE SwitchTarget(last_switch))
    /\ SessionDrained => current_mode = decode_bits(appended, "LAT").current_mode
    /\ (SessionDrained /\ appended = Frames(<< <<1,1,0,1,1>>, <<1,0,0,0,0>> >>))
       => stdout = <<"3">>
    /\ (SessionDrained
           /\ appended = Frames(<< <<1,0,0,0,0>>, <<1,1,0,1,1>>, <<1,0,0,0,0>> >>))
       => stdout = <<"E", "3">>

\* the FIGS switch was decoded by one poll, the digit by a later one
C4_Witness ==
    /\ SessionDrained
    /\ appended = Frames(<< <<1,0,0,0,0>>, <<1,1,0,1,1>>, <<1,0,0,0,0>> >>)
    /\ consumed = 24
    /\ Len(demodulated_bits) = 0
    /\ current_mode = "FIGS"
    /\ stdout = <<"E", "3">>

-----------------------------------------------------------------------------
(* C6 *)

\* C6 (as claimed): a _process_decoding that finds at least 7 bits removes
\* from the front of demodulated_bits exactly the bits decode_bits reported
\* as consumed and stores the mode it ended in, text or no text.  (A step that
\* delivers no sample is a step of _process_decoding.)
C6_PollRemovesConsumed ==
    [][(signal' = signal /\ Len(demodulated_bits) >= 7)
       => LET r == decode_bits(demodulated_bits, current_mode)
          IN /\ demodulated_bits' = DropN(demodulated_bits, r.i)
             /\ current_mode' = r.current_mode]_vars

-----------------------------------------------------------------------------
(* SpecAudio: audio_callback alone, no _process_decoding at all *)

\* largest samples-per-bit of a drawn configuration
MaxSpb == 2
\* longest arbitrary tone sequence drawn as a signal
MaxRawSamples == 4
\* longest bit sequence rendered in front of an idle mark tone
MaxAudioBits == 2

\* sample rates that give 1, 2, ... MaxSpb samples per bit at 45.45 baud
SampleRates == {46 * k : k \in 1..MaxSpb}

\* signals: arbitrary short tone sequences, and a few rendered bits followed
\* by up to BacklogFactor + 2 bit durations (and one sample) of mark tone
AudioSignals(spb) ==
    UNION {[1..k -> Tones] : k \in 1..MaxRawSamples}
        \cup {Render(b, spb) \o [k \in 1..m |-> "M"] :
                  b \in BitSeqs(MaxAudioBits), m \in 1..((BacklogFactor + 2) * spb + 1)}

InitAudio ==
    /\ sample_rate \in SampleRates
    /\ n_samples_per_bit = samples_per_bit(sample_rate)
    /\ signal \in AudioSignals(n_samples_per_bit)
    /\ buffer = <<>>
    /\ demodulated_bits = <<>>
    /\ current_mode = "LAT"
    /\ stdout = <<>>
    /\ pc = "idle"
    /\ text = <<>>
    /\ num_bits = 0
    /\ sliced = <<>>
    /\ appended = <<>>
    /\ consumed = 0
    /\ last = NoLast
    /\ last_switch = <<>>
    /\ ran = "none"
    /\ out = NoResult

NextAudio == \E n \in 1..Len(signal) : audio_callback(n)

SpecAudio == InitAudio /\ [][NextAudio]_vars

-----------------------------------------------------------------------------
(* C5 *)

\* C5: with audio_callback alone, whatever the chunk sizes, whenever a call
\* has returned the sample backlog holds at most 10 x samples-per-bit samples.
C5_BoundedBacklog == Len(buffer) <= BacklogFactor * n_samples_per_bit

\* more than 10 bit durations of samples were delivered (in one chunk or in
\* several) and a partial window is left in the backlog
C5_Witness ==
    /\ last = "audio_callback"
    /\ n_samples_per_bit = MaxSpb
    /\ signal = <<>>
    /\ Len(appended) > BacklogFactor
    /\ Len(buffer) = n_samples_per_bit - 1

-----------------------------------------------------------------------------
(* SpecThreads: audio_callback on the audio thread while the main thread is
   inside _process_decoding.  decode_bits reads the list the callback appends
   to; a run of it amounts to one read of the list.  The last statement,
   self.demodulated_bits = self.demodulated_bits[num_bits:], first builds the
   slice and then stores it. *)

\* longest bit sequence a session of SpecThreads receives
MaxThreadBits == 9

InitThreads ==
    /\ sample_rate = 46
    /\ n_samples_per_bit = samples_per_bit(46)
    /\ signal \in {Render(b, samples_per_bit(46)) : b \in BitSeqs(MaxThreadBits)}
    /\ buffer = <<>>
    /\ demodulated_bits = <<>>
    /\ current_mode = "LAT"
    /\ stdout = <<>>
    /\ pc = "idle"
    /\ text = <<>>
    /\ num_bits = 0
    /\ sliced = <<>>
    /\ appended = <<>>
    /\ consumed = 0
    /\ last = NoLast
    /\ last_switch = <<>>
    /\ ran = "none"
    /\ out = NoResult

\* _process_decoding up to `if text:`; it returns at once with fewer than 7
\* bits, and after decode_bits when the text is empty
poll_decode ==
    /\ pc = "idle"
    /\ IF Len(demodulated_bits) < 7
       THEN UNCHANGED <<current_mode, last_switch, text, num_bits, pc>>
       ELSE LET r == decode_bits(demodulated_bits, current_mode)
            IN /\ current_mode' = r.current_mode
               /\ last_switch' = LastSwitch(r.frames, last_switch)
               /\ text' = r.text
               /\ num_bits' = r.i
               /\ pc' = IF r.text # <<>> THEN "print" ELSE "idle"
    /\ last' = "_process_decoding"
    /\ UNCHANGED <<sample_rate, n_samples_per_bit, signal, buffer, demodulated_bits,
                   stdout, sliced, appended, consumed, ran, out>>

\* the formatting, the print, and the slice self.demodulated_bits[num_bits:]
poll_print_and_slice ==
    /\ pc = "print"
    /\ stdout' = stdout \o formatted(text)
    /\ sliced' = DropN(demodulated_bits, num_bits)
    /\ pc' = "store"
    /\ UNCHANGED <<sample_rate, n_samples_per_bit, signal, buffer, demodulated_bits,
                   current_mode, text, num_bits, appended, consumed, last,
                   last_switch, ran, out>>

\* the store of the slice into self.demodulated_bits
poll_store ==
    /\ pc = "store"
    /\ demodulated_bits' = sliced
    /\ consumed' = consumed + num_bits
    /\ pc' = "idle"
    /\ UNCHANGED <<sample_rate, n_samples_per_bit, signal, buffer, current_mode, stdout,
                   text, num_bits, sliced, appended, last, last_switch, ran, out>>

NextThreads ==
    \/ \E n \in 1..Len(signal) : audio_callback(n)
    \/ poll_decode
    \/ poll_print_and_slice
    \/ poll_store

SpecThreads == InitThreads /\ [][NextThreads]_vars

-----------------------------------------------------------------------------
(* C10 *)

\* C10 (as claimed): under every interleaving no bit is lost: the bits
\* appended so far, less the prefix the polls counted as consumed and
\* removed, are exactly the bits of demodulated_bits.
C10_NoBitLost == DropN(appended, consumed) = demodulated_bits

-----------------------------------------------------------------------------
(* BatchDecoder: RTTY_RCV.py *)

\* A batch sample is "M", "S", "Z" (amplitude zero) or, after a division of
\* zero by zero, "NaN".
BatchTones == {"M", "S", "Z"}

\* np.max(np.abs(signal)) is zero: every sample is zero
is_silent(sig) == \A k \in 1..Len(sig) : sig[k] = "Z"

\* signal /= np.max(np.abs(signal)): scaling keeps the tone of every sample;
\* with a maximum of zero every sample becomes 0/0 = NaN (numpy warns and
\* goes on)
normalized(sig) == IF is_silent(sig) THEN [k \in 1..Len(sig) |-> "NaN"] ELSE sig

\* _detect_frequency of RTTY_RCV.py: mark_energy > space_energy, which is
\* False when the energies are NaN (one NaN sample makes both sums NaN)
detect_frequency_batch(segment) ==
    IF \E k \in 1..Len(segment) : segment[k] = "NaN" THEN "space"
    ELSE IF band_energy(segment, "M") > band_energy(segment, "S") THEN "mark"
    ELSE "space"

\* demodulate: for i in range(0, n_samples, spb), segments shorter than
\* spb // 2 skipped
RECURSIVE demodulate_from(_, _, _)
demodulate_from(sig, i, spb) ==
    IF i >= Len(sig) THEN <<>>
    ELSE LET segment == SubSeq(sig, i + 1, IF i + spb <= Len(sig) THEN i + spb ELSE Len(sig))
         IN IF Len(segment) < spb \div 2
            THEN demodulate_from(sig, i + spb, spb)
            ELSE <<IF detect_frequency_batch(segment) = "mark" THEN 1 ELSE 0>>
                     \o demodulate_from(sig, i + spb, spb)

demodulate(sig, spb) == demodulate_from(sig, 0, spb)

\* decode(signal) for an in-memory mono signal: np.max of an empty array
\* raises ValueError; otherwise the text of decode_bits is returned
decode(sig, spb) ==
    IF Len(sig) = 0
    THEN [kind |-> "error", error |-> "ValueError", text |-> <<>>]
    ELSE [kind |-> "text", error |-> "none",
          text |-> decode_bits_batch(demodulate(normalized(sig), spb)).text]

-----------------------------------------------------------------------------
(* SpecBatch: decode applied to a drawn signal *)

\* longest arbitrary sample sequence drawn as a batch signal
MaxBatchSamples == 4

BatchSignals(spb) ==
    UNION {[1..k -> BatchTones] : k \in 0..MaxBatchSamples}
        \cup {Render(Frames(<<c>>), spb) : c \in FollowCodes}
        \cup {Render(Frames(<<c>>), spb) \o <<"M">> : c \in FollowCodes}

InitBatch ==
    /\ sample_rate \in SampleRates
    /\ n_samples_per_bit = samples_per_bit(sample_rate)
    /\ signal \in BatchSignals(n_samples_per_bit)
    /\ buffer = <<>>
    /\ demodulated_bits = <<>>
    /\ current_mode = "LAT"
    /\ stdout = <<>>
    /\ pc = "idle"
    /\ text = <<>>
    /\ num_bits = 0
    /\ sliced = <<>>
    /\ appended = <<>>
    /\ consumed = 0
    /\ last = NoLast
    /\ last_switch = <<>>
    /\ ran = "none"
    /\ out = NoResult

\* RTTY_RCV.py: decode(signal)
RunDecode ==
    /\ ran = "none"
    /\ out' = decode(signal, n_samples_per_bit)
    /\ ran' = "decode"
    /\ UNCHANGED <<sample_rate, n_samples_per_bit, signal, buffer, demodulated_bits,
                   current_mode, stdout, pc, text, num_bits, sliced, appended,
                   consumed, last, last_switch>>

NextBatch == RunDecode

SpecBatch == InitBatch /\ [][NextBatch]_vars

-----------------------------------------------------------------------------
(* C9 *)

\* C9 (as claimed): decode of a zero-length signal fails, decode of an
\* all-zero signal fails with an error of another kind, and neither returns
\* a text.
C9_EmptyAndSilentFail ==
    (ran = "decode")
    => /\ signal = <<>> => out.kind = "error"
       /\ (signal # <<>> /\ is_silent(signal))
          => out.kind = "error" /\ out.error # decode(<<>>, n_samples_per_bit).error

-----------------------------------------------------------------------------
(* C11 *)

\* the table of a mode as written in each of the two files
WrittenTables(m) == {ITA2_MODES[m], ITA2_MODES_batch[m]}

\* C11 (as claimed): whatever mode is in force, in its table of either file no
\* code is listed for two different characters, and every character listed is
\* what _decode_ita2_char returns for its code in that mode.
C11_CodebookUniqueness ==
    /\ \A table \in WrittenTables(current_mode) :
           \A k, l \in 1..Len(table) :
               table[k][1] = table[l][1] => table[k][2] = table[l][2]
    /\ \A k \in 1..Len(ITA2_MODES[current_mode]) :
           decode_ita2_char(ITA2_MODES, ITA2_MODES[current_mode][k][1], current_mode)
               = ITA2_MODES[current_mode][k][2]
    /\ \A k \in 1..Len(ITA2_MODES_batch[current_mode]) :
           decode_ita2_char(ITA2_MODES_batch, ITA2_MODES_batch[current_mode][k][1],
                            current_mode)
               = ITA2_MODES_batch[current_mode][k][2]

-----------------------------------------------------------------------------
(* C12 *)

\* the positions the run in out took as a start bit: the starts of the frames
\* it recognized and the starts it abandoned
StartAttempts ==
    {out.frames[k].s : k \in 1..Len(out.frames)} \cup {out.fails[n] : n \in 1..Len(out.fails)}

\* the 0-bits after position s that still have six bits after them
LaterStarts(s) ==
    {t \in (s + 1)..(Len(demodulated_bits) - 7) : demodulated_bits[t + 1] = 0}

\* C12 (as claimed): in both decoders, a start bit at s whose bit s+6 is not 1
\* emits nothing (every recognized frame has a 1 at s+6), and the search
\* resumes at s+1 with the data bits unconsumed: the first 0-bit from s+1 on
\* that has six bits after it is taken as a start bit in its turn.
C12_FramingFailure ==
    (ran # "none")
    => /\ \A k \in 1..Len(out.frames) : demodulated_bits[out.frames[k].s + 7] = 1
       /\ \A s \in StartAttempts :
              (demodulated_bits[s + 7] # 1 /\ LaterStarts(s) # {})
              => (CHOOSE t \in LaterStarts(s) : \A u \in LaterStarts(s) : t <= u)
                     \in StartAttempts

-----------------------------------------------------------------------------
(* SpecReentry: decode_bits applied to a bit sequence x and then, from the
   mode it ended in, to the bits it left unconsumed followed by the bits y
   that arrived meanwhile.  Here signal holds y as bits. *)

\* longest arbitrary bit sequence x + y
MaxSplitBits == 9
\* most frames of a framed x + y
MaxSplitFrames == 2

\* the sequences x + y: arbitrary short ones, framed messages over
\* FollowCodes, and framed messages after one spurious 0-bit
SplitWholes ==
    BitSeqs(MaxSplitBits)
        \cup {Frames(cs) : cs \in UNION {[1..k -> FollowCodes] : k \in 1..MaxSplitFrames}}
        \cup {<<0>> \o Frames(cs) :
                  cs \in UNION {[1..k -> FollowCodes] : k \in 1..MaxSplitFrames}}

InitReentry ==
    /\ sample_rate = 46
    /\ n_samples_per_bit = samples_per_bit(46)
    /\ \E w \in SplitWholes : \E k \in 0..Len(w) :
           /\ demodulated_bits = SubSeq(w, 1, k)
           /\ signal = DropN(w, k)
    /\ buffer = <<>>
    /\ current_mode \in Modes
    /\ stdout = <<>>
    /\ pc = "idle"
    /\ text = <<>>
    /\ num_bits = 0
    /\ sliced = <<>>
    /\ appended = <<>>
    /\ consumed = 0
    /\ last = NoLast
    /\ last_switch = <<>>
    /\ ran = "none"
    /\ out = NoResult

\* the second call: decode_bits(x[c:] + y), c being the count the first call
\* returned and self.current_mode the mode the first call left
RunDecodeBitsRest ==
    /\ ran = "decode_bits"
    /\ LET rest == DropN(demodulated_bits, out.i) \o signal
           r == decode_bits(rest, current_mode)
       IN /\ out' = r @@ [start |-> out.start, first |-> out]
          /\ current_mode' = r.current_mode
          /\ demodulated_bits' = rest
    /\ appended' = demodulated_bits \o signal
    /\ consumed' = out.i
    /\ ran' = "decode_bits_rest"
    /\ UNCHANGED <<sample_rate, n_samples_per_bit, signal, buffer, stdout, pc, text,
                   num_bits, sliced, last, last_switch>>

NextReentry == RunDecodeBits \/ RunDecodeBitsRest

SpecReentry == InitReentry /\ [][NextReentry]_vars

-----------------------------------------------------------------------------
(* C13 *)

\* C13: the first run consumes between 0 and len(x) bits and leaves fewer than
\* 7 of them when x has at least 7; the texts of the two runs, concatenated,
\* and the mode after the second are the text and the mode of one run over
\* x + y from the same starting mode.
C13_Reentrancy ==
    /\ (ran = "decode_bits")
       => /\ 0 <= out.i /\ out.i <= Len(demodulated_bits)
          /\ Len(demodulated_bits) >= 7 => Len(demodulated_bits) - out.i < 7
    /\ (ran = "decode_bits_rest")
       => /\ out.first.text \o out.text = decode_bits(appended, out.start).text
          /\ out.current_mode = decode_bits(appended, out.start).current_mode

\* the first run recognized a mode switch and left a partial frame behind;
\* the second run decoded that frame, completed by y, in the new mode
C13_Witness ==
    /\ ran = "decode_bits_rest"
    /\ Len(out.first.frames) = 1
    /\ out.first.current_mode # out.start
    /\ 0 < consumed
    /\ consumed < Len(appended) - Len(signal)
    /\ signal # <<>>
    /\ out.text # <<>>
    /\ out.frames[1].s = 0
    /\ out.frames[1].mode = out.first.current_mode

-----------------------------------------------------------------------------
(* C14 *)

\* C14 (as claimed): over any bit sequence, from mode LAT, the batch and the
\* streaming decode_bits return the same text.
C14_BatchStreamingEquivalence ==
    (ran # "none" /\ out.start = "LAT")
    => /\ out.text = decode_bits(demodulated_bits, "LAT").text
       /\ out.text = decode_bits_batch(demodulated_bits).text

-----------------------------------------------------------------------------
(* C15 *)

\* the length of the maximal run of 1-bits of demodulated_bits from position p on
StopRun(p) ==
    LET ends == {q \in p..Len(demodulated_bits) :
                     /\ \A t \in p..(q - 1) : demodulated_bits[t + 1] = 1
                     /\ (q = Len(demodulated_bits) \/ demodulated_bits[q + 1] # 1)}
    IN (CHOOSE q \in ends : TRUE) - p

\* the k-th recognized frame of the run in out started at a 0-bit that has a
\* 1-bit six places on
CleanFrame(k) == demodulated_bits[out.frames[k].s + 7] = 1

\* C15: in both decoders a start bit at s with a run of k >= 1 stop bits at
\* s+6 is recognized, whatever k: the first 0-bit of the input, if followed
\* so, starts the first frame; each such frame carries the five bits after its
\* start bit and one lookup result, and ends at s + 6 + k; nothing examined
\* later lies inside its stop run; one stop bit or two give the same text.
C15_RecognizedFrame ==
    (ran # "none")
    => /\ (Len(demodulated_bits) >= 7 /\ demodulated_bits[1] = 0 /\ demodulated_bits[7] = 1)
          => /\ Len(out.frames) >= 1
             /\ out.frames[1].s = 0
       /\ \A k \in 1..Len(out.frames) :
              CleanFrame(k)
              => LET f == out.frames[k]
                 IN /\ demodulated_bits[f.s + 1] = 0
                    /\ f.data = SubSeq(demodulated_bits, f.s + 2, f.s + 6)
                    /\ StopRun(f.s + 6) >= 1
                    /\ f.j = f.s + 6 + StopRun(f.s + 6)
                    /\ f.char = (IF ran = "decode_bits_batch"
                                 THEN decode_ita2_char(ITA2_MODES_batch, f.data, f.mode)
                                 ELSE decode_ita2_char(ITA2_MODES, f.data, f.mode))
                    /\ \A s \in StartAttempts : s = f.s \/ s < f.s \/ s >= f.j
                    /\ \A l \in 1..Len(out.frames) : out.frames[l].s = f.s => l = k
       /\ Len(out.text) = EmitIndex(Len(out.frames))
       /\ out.i <= Len(demodulated_bits)
       /\ (Len(demodulated_bits) = 8 /\ IsFramed(demodulated_bits))
          => out.text = (IF ran = "decode_bits_batch"
                         THEN decode_bits_batch(SubSeq(demodulated_bits, 1, 7)).text
                         ELSE decode_bits(SubSeq(demodulated_bits, 1, 7), out.start).text)

\* a start bit, five data bits and a run of three stop bits: one frame,
\* recognized once, ending at index 9
C15_Witness ==
    /\ ran = "decode_bits"
    /\ Len(out.frames) = 1
    /\ out.frames[1].s = 0
    /\ out.frames[1].j = 9
    /\ StopRun(6) = 3
    /\ Len(out.text) = 1

-----------------------------------------------------------------------------
(* SpecPoll: a streaming session at two samples per bit, so that a partial
   window stays in the sample backlog between calls, over signals that carry
   line feeds and carriage returns; the batch decoder may be given the same
   signal before the session starts *)

\* longest arbitrary bit sequence a session of SpecPoll receives
MaxPollBits == 3
\* most frames of a framed message a session of SpecPoll receives
MaxPollFrames == 3
\* most samples the audio source of SpecPoll delivers in one call
MaxPollChunk == 3

\* line feed, carriage return and E
PollCodes == {<<0,1,0,0,0>>, <<0,0,0,1,0>>, <<1,0,0,0,0>>}

PollBits ==
    BitSeqs(MaxPollBits)
        \cup {Frames(cs) : cs \in UNION {[1..k -> PollCodes] : k \in 1..MaxPollFrames}}

\* the rendered bits, followed or not by one more sample (half a window)
PollSignals(spb) ==
    {Render(b, spb) \o t : b \in PollBits, t \in {<<>>, <<"M">>}}

InitPoll ==
    /\ sample_rate = 92
    /\ n_samples_per_bit = samples_per_bit(92)
    /\ signal \in PollSignals(samples_per_bit(92))
    /\ buffer = <<>>
    /\ demodulated_bits = <<>>
    /\ current_mode = "LAT"
    /\ stdout = <<>>
    /\ pc = "idle"
    /\ text = <<>>
    /\ num_bits = 0
    /\ sliced = <<>>
    /\ appended = <<>>
    /\ consumed = 0
    /\ last = NoLast
    /\ last_switch = <<>>
    /\ ran = "none"
    /\ out = NoResult

\* RTTY_RCV.py: decode(signal) of the whole signal, before any of it is streamed
RunDecodeWhole == last = NoLast /\ RunDecode

NextPoll ==
    \/ \E n \in 1..MaxPollChunk : audio_callback(n)
    \/ process_decoding
    \/ RunDecodeWhole

SpecPoll == InitPoll /\ [][NextPoll]_vars

-----------------------------------------------------------------------------
(* C16 *)

\* C16: a _process_decoding that finds fewer than 7 bits prints nothing and
\* leaves the bit backlog, the mode and the sample backlog as they were.  (A
\* step that delivers no sample and is not the batch decode is a step of
\* _process_decoding.)
C16_ShortPollNoEffect ==
    [][(signal' = signal /\ ran' = ran /\ Len(demodulated_bits) < 7)
       => /\ stdout' = stdout
          /\ demodulated_bits' = demodulated_bits
          /\ current_mode' = current_mode
          /\ buffer' = buffer]_vars

\* _process_decoding has just run on a backlog of 1 to 6 bits, with half a
\* window in the sample backlog
C16_Witness ==
    /\ last = "_process_decoding"
    /\ consumed = 0
    /\ Len(demodulated_bits) > 0
    /\ Len(demodulated_bits) < 7
    /\ Len(buffer) = 1
    /\ stdout = <<>>
    /\ signal # <<>>

-----------------------------------------------------------------------------
(* C17 *)

\* txt with every carriage return replaced by a newline and, of every run of
\* newlines, the first one kept
RECURSIVE FirstOfRuns(_, _)
FirstOfRuns(t, k) ==
    IF k > Len(t) THEN <<>>
    ELSE (IF k > 1 /\ t[k] = "\n" /\ t[k - 1] = "\n" THEN <<>> ELSE <<t[k]>>)
             \o FirstOfRuns(t, k + 1)

CollapsedRuns(txt) ==
    FirstOfRuns([k \in 1..Len(txt) |-> IF txt[k] = "\r" THEN "\n" ELSE txt[k]], 1)

\* C17: the fragment a _process_decoding prints holds no carriage return and
\* no two newlines in a row, and is the decoded text with every carriage
\* return made a newline and every run of newlines made one; the batch decode
\* returns the decoded text as it is, carriage returns and runs of newlines
\* included.
C17_OutputFormatting ==
    [][/\ (signal' = signal /\ ran' = ran /\ Len(demodulated_bits) >= 7)
          => LET raw == decode_bits(demodulated_bits, current_mode).text
                 fragment == DropN(stdout', Len(stdout))
             IN /\ stdout' = stdout \o fragment
                /\ \A k \in 1..Len(fragment) : fragment[k] # "\r"
                /\ \A k \in 1..(Len(fragment) - 1) :
                       ~(fragment[k] = "\n" /\ fragment[k + 1] = "\n")
                /\ fragment = CollapsedRuns(raw)
       /\ (ran = "none" /\ ran' = "decode" /\ signal # <<>>)
          => /\ out'.text =
                    decode_bits_batch(demodulate(signal, n_samples_per_bit)).text
             /\ signal = Render(Frames(<< <<0,0,0,1,0>>, <<0,1,0,0,0>>, <<0,1,0,0,0>> >>),
                                n_samples_per_bit)
                => out'.text = <<"\r", "\n", "\n">>]_vars

\* one poll decoded line feed, carriage return, line feed and printed one newline
C17_Witness ==
    /\ last = "_process_decoding"
    /\ appended = Frames(<< <<0,1,0,0,0>>, <<0,0,0,1,0>>, <<0,1,0,0,0>> >>)
    /\ consumed = 24
    /\ stdout = <<"\n">>

-----------------------------------------------------------------------------
(* SpecDetect: the two _detect_frequency applied to a drawn segment, held in
   buffer, and the bit made of the answer *)

\* longest segment drawn
MaxSegment == 9

InitDetect ==
    /\ sample_rate = 46
    /\ n_samples_per_bit = samples_per_bit(46)
    /\ signal = <<>>
    /\ buffer \in UNION {[1..k -> Tones] : k \in 1..MaxSegment}
    /\ demodulated_bits = <<>>
    /\ current_mode = "LAT"
    /\ stdout = <<>>
    /\ pc = "idle"
    /\ text = <<>>
    /\ num_bits = 0
    /\ sliced = <<>>
    /\ appended = <<>>
    /\ consumed = 0
    /\ last = NoLast
    /\ last_switch = <<>>
    /\ ran = "none"
    /\ out = NoResult

\* RTTY_RCV_19.py: freq_type = self._detect_frequency(segment);
\* bit = 1 if freq_type == 'mark' else 0
RunDetectFrequency ==
    /\ ran = "none"
    /\ out' = [freq |-> detect_frequency(buffer),
               bit |-> IF detect_frequency(buffer) = "mark" THEN 1 ELSE 0]
    /\ ran' = "_detect_frequency"
    /\ UNCHANGED <<sample_rate, n_samples_per_bit, signal, buffer, demodulated_bits,
                   current_mode, stdout, pc, text, num_bits, sliced, appended,
                   consumed, last, last_switch>>

\* RTTY_RCV.py: the same two statements of demodulate
RunDetectFrequencyBatch ==
    /\ ran = "none"
    /\ out' = [freq |-> detect_frequency_batch(buffer),
               bit |-> IF detect_frequency_batch(buffer) = "mark" THEN 1 ELSE 0]
    /\ ran' = "_detect_frequency_batch"
    /\ UNCHANGED <<sample_rate, n_samples_per_bit, signal, buffer, demodulated_bits,
                   current_mode, stdout, pc, text, num_bits, sliced, appended,
                   consumed, last, last_switch>>

NextDetect == RunDetectFrequency \/ RunDetectFrequencyBatch

SpecDetect == InitDetect /\ [][NextDetect]_vars

-----------------------------------------------------------------------------
(* C18 *)

\* the part of the drawn segment the streaming discriminator measures
MeasuredWindow == LastN(buffer, (Len(buffer) * 8) \div 10)

\* |mark - space| < 0.2 x (mark + space)
Hysteresis(mark, space) ==
    5 * (IF mark >= space THEN mark - space ELSE space - mark) < mark + space

-----------------------------------------------------------------------------
(* SpecConfig: __init__ applied to a drawn sample rate, at the default baud *)

\* largest sample rate drawn, besides the default one
MaxRate == 120

DefaultRate == 44100

InitConfig ==
    /\ sample_rate \in (1..MaxRate) \cup {DefaultRate}
    /\ n_samples_per_bit = 0
    /\ signal = <<>>
    /\ buffer = <<>>
    /\ demodulated_bits = <<>>
    /\ current_mode = "LAT"
    /\ stdout = <<>>
    /\ pc = "idle"
    /\ text = <<>>
    /\ num_bits = 0
    /\ sliced = <<>>
    /\ appended = <<>>
    /\ consumed = 0
    /\ last = NoLast
    /\ last_switch = <<>>
    /\ ran = "none"
    /\ out = NoResult

\* RTTYDecoder(sample_rate=sample_rate): the same statements in both files
Construct ==
    /\ ran = "none"
    /\ n_samples_per_bit' = samples_per_bit(sample_rate)
    /\ ran' = "__init__"
    /\ UNCHANGED <<sample_rate, signal, buffer, demodulated_bits, current_mode, stdout,
                   pc, text, num_bits, sliced, appended, consumed, last, last_switch,
                   out>>

NextConfig == Construct

SpecConfig == InitConfig /\ [][NextConfig]_vars

-----------------------------------------------------------------------------
(* C19 *)

\* C19 (as claimed): after construction samples-per-bit is positive and is the
\* integer nearest to sample_rate / baud (at most one half away from it); at
\* 44100 Hz and 45.45 baud it is 970.
C19_SamplesPerBit ==
    (ran = "__init__")
    => /\ n_samples_per_bit > 0
       /\ 2 * (n_samples_per_bit * BaudNum - sample_rate * BaudDen) <= BaudNum
       /\ 2 * (sample_rate * BaudDen - n_samples_per_bit * BaudNum) <= BaudNum
       /\ sample_rate = DefaultRate => n_samples_per_bit = 970

-----------------------------------------------------------------------------
(* SpecConserve: audio_callback alone, as in SpecAudio, with the whole signal
   of the session remembered in out *)

InitConserve ==
    /\ sample_rate \in SampleRates
    /\ n_samples_per_bit = samples_per_bit(sample_rate)
    /\ signal \in AudioSignals(n_samples_per_bit)
    /\ buffer = <<>>
    /\ demodulated_bits = <<>>
    /\ current_mode = "LAT"
    /\ stdout = <<>>
    /\ pc = "idle"
    /\ text = <<>>
    /\ num_bits = 0
    /\ sliced = <<>>
    /\ appended = <<>>
    /\ consumed = 0
    /\ last = NoLast
    /\ last_switch = <<>>
    /\ ran = "none"
    /\ out = [whole |-> signal]

SpecConserve == InitConserve /\ [][NextAudio]_vars

-----------------------------------------------------------------------------
(* C20 *)

\* the samples pushed so far
Pushed == SubSeq(out.whole, 1, Len(out.whole) - Len(signal))

\* C20: with audio_callback alone, whenever a call has returned, the samples
\* pushed so far are samples-per-bit times the bits appended plus the sample
\* backlog, which is shorter than one bit; the bits and the backlog are those
\* of one call with all the samples pushed so far, however they were chunked,
\* and the backlog is what the while loop left: nothing was truncated.
C20_SampleConservation ==
    /\ Len(Pushed) = n_samples_per_bit * Len(appended) + Len(buffer)
    /\ Len(buffer) < n_samples_per_bit
    /\ demodulated_bits = appended
    /\ demodulated_bits = callback_result(<<>>, <<>>, Pushed, n_samples_per_bit).bits
    /\ buffer = drained(Pushed, <<>>, n_samples_per_bit).buffer
    /\ buffer = LastN(Pushed, Len(Pushed) % n_samples_per_bit)
       \/ Len(Pushed) % n_samples_per_bit = 0

\* more than ten bit durations have been pushed in more than one call,
\* nothing was discarded, a partial window is left and the source has more
\* to deliver
C20_Witness ==
    /\ last = "audio_callback"
    /\ n_samples_per_bit = MaxSpb
    /\ Len(appended) > BacklogFactor
    /\ Len(Pushed) > BacklogFactor * n_samples_per_bit + 1
    /\ Len(buffer) = 1
    /\ signal # <<>>

-----------------------------------------------------------------------------
(* SpecLoop: the while loops of the two decode_bits, one iteration per step.
   out holds the locals of the running call (i, bit_buffer, current_mode,
   text) and pc its position: "idle" before the call, "loop" at the loop
   test, "done" after the return. *)

\* longest arbitrary bit sequence given to the loops
MaxLoopBits == 8
\* most frames of a framed message given to the loops
MaxLoopFrames == 2

LoopInputs ==
    BitSeqs(MaxLoopBits)
        \cup {Frames(cs) : cs \in UNION {[1..k -> FollowCodes] : k \in 1..MaxLoopFrames}}
        \cup {<<0>> \o Frames(cs) :
                  cs \in UNION {[1..k -> FollowCodes] : k \in 1..MaxLoopFrames}}

InitLoop ==
    /\ sample_rate = 46
    /\ n_samples_per_bit = samples_per_bit(46)
    /\ signal = <<>>
    /\ buffer = <<>>
    /\ demodulated_bits \in LoopInputs
    /\ current_mode \in Modes
    /\ stdout = <<>>
    /\ pc = "idle"
    /\ text = <<>>
    /\ num_bits = 0
    /\ sliced = <<>>
    /\ appended = <<>>
    /\ consumed = 0
    /\ last = NoLast
    /\ last_switch = <<>>
    /\ ran = "none"
    /\ out = NoResult

\* one iteration of the while of decode_bits of RTTY_RCV_19.py, on the locals st
decode_iteration(bits, st) ==
    IF bits[st.i + 1] # 0
    THEN [st EXCEPT !.i = st.i + 1]
    ELSE LET data_bits == SubSeq(bits, st.i + 2, st.i + 6)
             j == stop_scan(bits, st.i + 6)
             stop_length == j - (st.i + 6)
         IN IF stop_length < 1
            THEN [st EXCEPT !.i = resync_index(st.i)]
            ELSE LET char == decode_ita2_char(ITA2_MODES, data_bits, st.current_mode)
                 IN [st EXCEPT !.i = j,
                               !.current_mode = mode_after(char, st.current_mode),
                               !.text = text_after(char, st.text)]

\* one iteration of the while of decode_bits of RTTY_RCV.py, on the locals st
decode_iteration_batch(bits, st) ==
    LET bit == bits[st.i + 1]
        buf == Append(st.bit_buffer, bit)
    IN IF Len(buf) = 1 /\ bit # 0
       THEN [st EXCEPT !.bit_buffer = <<>>, !.i = st.i + 1]
       ELSE IF Len(buf) >= 7
       THEN IF buf[1] # 0
            THEN [st EXCEPT !.bit_buffer = <<>>]
            ELSE LET data_bits == SubSeq(buf, 2, 6)
                     j == stop_scan(bits, st.i)
                     stop_length == j - st.i
                 IN IF stop_length >= 1
                    THEN LET char == decode_ita2_char(ITA2_MODES_batch, data_bits,
                                                      st.current_mode)
                         IN [i |-> j, bit_buffer |-> <<>>,
                             current_mode |-> mode_after(char, st.current_mode),
                             text |-> text_after(char, st.text), start |-> st.start]
                    ELSE [st EXCEPT !.bit_buffer = buf, !.i = st.i + 1]
       ELSE [st EXCEPT !.bit_buffer = buf, !.i = st.i + 1]

\* RTTY_RCV_19.py: entry of decode_bits, up to the loop test
CallDecodeBits ==
    /\ pc = "idle"
    /\ out' = [i |-> 0, bit_buffer |-> <<>>, current_mode |-> start_mode(current_mode),
               text |-> <<>>, start |-> current_mode]
    /\ ran' = "decode_bits"
    /\ pc' = "loop"
    /\ UNCHANGED <<sample_rate, n_samples_per_bit, signal, buffer, demodulated_bits,
                   current_mode, stdout, text, num_bits, sliced, appended, consumed,
                   last, last_switch>>

\* while i < len(bits) - 6: one iteration; a mode switch is stored in
\* self.current_mode at once
IterateDecodeBits ==
    /\ pc = "loop"
    /\ ran = "decode_bits"
    /\ out.i < Len(demodulated_bits) - 6
    /\ out' = decode_iteration(demodulated_bits, out)
    /\ current_mode' = decode_iteration(demodulated_bits, out).current_mode
    /\ UNCHANGED <<sample_rate, n_samples_per_bit, signal, buffer, demodulated_bits,
                   stdout, pc, text, num_bits, sliced, appended, consumed, last,
                   last_switch, ran>>

\* the loop test fails: return ''.join(text), i
ReturnDecodeBits ==
    /\ pc = "loop"
    /\ ran = "decode_bits"
    /\ ~(out.i < Len(demodulated_bits) - 6)
    /\ pc' = "done"
    /\ UNCHANGED <<sample_rate, n_samples_per_bit, signal, buffer, demodulated_bits,
                   current_mode, stdout, text, num_bits, sliced, appended, consumed,
                   last, last_switch, ran, out>>

\* RTTY_RCV.py: entry of decode_bits, up to the loop test
CallDecodeBitsBatch ==
    /\ pc = "idle"
    /\ out' = [i |-> 0, bit_buffer |-> <<>>, current_mode |-> "LAT",
               text |-> <<>>, start |-> "LAT"]
    /\ ran' = "decode_bits_batch"
    /\ pc' = "loop"
    /\ UNCHANGED <<sample_rate, n_samples_per_bit, signal, buffer, demodulated_bits,
                   current_mode, stdout, text, num_bits, sliced, appended, consumed,
                   last, last_switch>>

\* while i < len(bits): one iteration
IterateDecodeBitsBatch ==
    /\ pc = "loop"
    /\ ran = "decode_bits_batch"
    /\ out.i < Len(demodulated_bits)
    /\ out' = decode_iteration_batch(demodulated_bits, out)
    /\ UNCHANGED <<sample_rate, n_samples_per_bit, signal, buffer, demodulated_bits,
                   current_mode, stdout, pc, text, num_bits, sliced, appended,
                   consumed, last, last_switch, ran>>

\* the loop test fails: return ''.join(text)
ReturnDecodeBitsBatch ==
    /\ pc = "loop"
    /\ ran = "decode_bits_batch"
    /\ ~(out.i < Len(demodulated_bits))
    /\ pc' = "done"
    /\ UNCHANGED <<sample_rate, n_samples_per_bit, signal, buffer, demodulated_bits,
                   current_mode, stdout, text, num_bits, sliced, appended, consumed,
                   last, last_switch, ran, out>>

NextLoop ==
    \/ CallDecodeBits
    \/ IterateDecodeBits
    \/ ReturnDecodeBits
    \/ CallDecodeBitsBatch
    \/ IterateDecodeBitsBatch
    \/ ReturnDecodeBitsBatch

\* a call that was made does not stop in the middle: the thread keeps running
SpecLoop == InitLoop /\ [][NextLoop]_vars /\ WF_vars(NextLoop)

-----------------------------------------------------------------------------
(* C21 *)

\* C21: in both decode_bits every loop iteration strictly increases the
\* index, the index never exceeds the length of the bit sequence, and the
\* call returns, with the text and the index of the function as a whole.
C21_Termination ==
    /\ [][(pc = "loop" /\ pc' = "loop") => out'.i > out.i]_vars
    /\ [](out.i <= Len(demodulated_bits))
    /\ [](pc = "done"
          => IF ran = "decode_bits_batch"
             THEN /\ out.text = decode_bits_batch(demodulated_bits).text
                  /\ out.i = decode_bits_batch(demodulated_bits).i
             ELSE /\ out.text = decode_bits(demodulated_bits, out.start).text
                  /\ out.i = decode_bits(demodulated_bits, out.start).i
                  /\ current_mode = out.current_mode)
    /\ <>(pc = "done")

\* the batch loop went on accumulating after a missing stop bit, accepted a
\* later one, and returned at the end of the bits
C21_Witness ==
    /\ pc = "done"
    /\ ran = "decode_bits_batch"
    /\ Len(demodulated_bits) >= 9
    /\ demodulated_bits[1] = 0
    /\ demodulated_bits[7] = 0
    /\ out.text # <<>>
    /\ out.i = Len(demodulated_bits)

====
